---- MODULE Spec2Model ----
(***************************************************************************)
(* fastdownloader: a parallel HTTP range downloader (src/fastdownloader.go).*)
(*                                                                         *)
(* The model has two entry points, chosen in Init:                         *)
(*   entry = "main": main() -> parallelDownload() (probe, dispatch of one  *)
(*                   goroutine per range, WaitGroup barrier, reassembly)   *)
(*                   and the serialDownload() fallback;                    *)
(*   entry = "test": TestBatchGenerator's loop, which calls the closure    *)
(*                   returned by batchGenerator() again and again.         *)
(*                                                                         *)
(* Bytes of the resource are identified with their offsets 0..resLen-1, so *)
(* a file's content is a sequence of offsets.  uint64 arithmetic is kept   *)
(* modular, at a width of WordBits bits instead of 64.                     *)
(***************************************************************************)
EXTENDS Integers, Sequences, FiniteSets, TLC

\* ------------------------------------------------------------- bounds
MaxLen == 5
MaxFanOut == 6
MaxTestLen == 13
MaxFaults == 1
MaxReads == 2
WordBits == 4

\* uint64, scaled to WordBits bits
RECURSIVE Pow2(_)
Pow2(n) == IF n = 0 THEN 1 ELSE 2 * Pow2(n - 1)
UintMod == Pow2(WordBits)
MaxUint == UintMod - 1
UAdd(a, b) == (a + b) % UintMod
USub(a, b) == (a + UintMod - b) % UintMod

\* goroutines the dispatch loop may start: enough for every partition into ranges
\* of two bytes or more
MaxTasks == (MaxLen + 1) \div 2

\* calls the test loop may make: enough to pass exhaustion for every length
MaxCalls == MaxTestLen + 2

\* goroutines that share one generator
NumCallers == 2

\* calls the concurrent callers make in all: enough to pass exhaustion
MaxCallerCalls == MaxLen + 1

VARIABLES
    entry,            \* "main" | "test" | "callers" (goroutines sharing one generator)
    resLen,           \* length of the resource the server holds (main) /
                      \* the contentLength argument (test)
    parallelRequests, \* the -parallel flag (main) / the totalBatches argument (test)
    pc,               \* position of the main goroutine
    acceptRanges,     \* Accept-Ranges of the HEAD response ("?" before it)
    headLength,       \* Content-Length of the HEAD response: "?" before it, then
                      \* "valid" (the resource's length) or "invalid" (absent, not a number)
    contentLength,    \* parsed Content-Length
    perr,             \* error returned by parallelDownload ("none" before)
    serr,             \* error returned by serialDownload ("none" before)
    fallbackRuns,     \* number of serialDownload calls made by main
    exitCode,
    gen,              \* closure state of batchGenerator: start, batchSize, contentLength
    emitted,          \* history: pairs returned by the generator's non-exhausted branch
    exhausted,        \* history: the generator took its exhausted branch
    returns,          \* history: every pair returned by the generator
    maxFiles,         \* parallelDownload's maxFiles
    tasks,            \* the fetch goroutines, tasks[k+1] has index k
    wg,               \* downloaderWg counter
    finished,         \* history: indices of the tasks that returned, in that order
    readBytes,        \* progress.readBytes
    chunks,           \* chunk files on disk: index -> content
    final,            \* the file named fileName: [exists, data]
    mi,               \* reassembly loop variable i
    faults,           \* history: the failures the environment has injected
    mutex,            \* the generator's sync.Mutex m: 0 when free, else the caller holding it
    callers           \* the goroutines calling one generator: position, the local stop,
                      \* the pair being returned, and the pairs received so far

vars == <<entry, resLen, parallelRequests, pc, acceptRanges, headLength, contentLength, perr,
          serr, fallbackRuns, exitCode, gen, emitted, exhausted, returns, maxFiles,
          tasks, wg, finished, readBytes, chunks, final, mi, faults, mutex, callers>>

\* ------------------------------------------------------------- helpers
Min(a, b) == IF a < b THEN a ELSE b

\* bytes lo..hi (inclusive) of the resource, as a sequence of offsets
Bytes(lo, hi) == IF hi < lo THEN <<>> ELSE [i \in 1..(hi - lo + 1) |-> lo + i - 1]

\* the body of a response with a non-success status: no byte of the resource
ErrorBody == << -1 >>

NoFile == [exists |-> FALSE, data |-> <<>>]

CanFail == Cardinality(faults) < MaxFaults

\* ------------------------------------------------------------- batchGenerator
\* a batch size rounded up instead of down
BatchSizeCeil(cl, tb) == (cl + tb - 1) \div tb

\* batchSize = contentLength / totalBatches (integer division)
BatchSize(cl, tb) == cl \div tb

\* the closure's captured variables after batchGenerator(cl, tb)
batchGenerator(cl, tb) ==
    [start |-> 0, batchSize |-> BatchSize(cl, tb), contentLength |-> cl]

\* if start >= contentLength { return 0, 0 }
GenExhausted(g) == g.start >= g.contentLength

\* stop := start + batchSize; if stop > contentLength { stop = contentLength }
GenStop(g) ==
    LET stop == UAdd(g.start, g.batchSize)
    IN  IF stop > g.contentLength THEN g.contentLength ELSE stop

\* start += batchSize
GenAdvance(g) == [g EXCEPT !.start = UAdd(g.start, g.batchSize)]

\* return start - batchSize, stop - 1   (start already advanced)
GenReturn(g) ==
    IF GenExhausted(g)
    THEN <<0, 0>>
    ELSE <<USub(GenAdvance(g).start, g.batchSize), USub(GenStop(g), 1)>>

\* one call of the closure, the whole of it under the mutex m
GenCall(g) ==
    [ret  |-> GenReturn(g),
     gen  |-> IF GenExhausted(g) THEN g ELSE GenAdvance(g),
     done |-> GenExhausted(g)]

\* the history of generator calls after one more call on g
Recorded(g) ==
    /\ gen' = GenCall(g).gen
    /\ returns' = Append(returns, GenCall(g).ret)
    /\ emitted' = IF GenCall(g).done THEN emitted ELSE Append(emitted, GenCall(g).ret)
    /\ exhausted' = (exhausted \/ GenCall(g).done)

\* ------------------------------------------------------------- Init
\* the goroutines that call one generator concurrently
CallerIds == 1..NumCallers

\* a caller that is not inside the closure and has received nothing
NoCall == [pc |-> "call", stop |-> 0, ret |-> <<0, 0>>, last |-> FALSE, got |-> <<>>]

NoGenerator == [start |-> 0, batchSize |-> 0, contentLength |-> 0]

Init ==
    /\ entry \in {"main", "test", "callers"}
    /\ resLen \in 1..(IF entry = "test" THEN MaxTestLen ELSE MaxLen)
    /\ parallelRequests \in 1..(IF entry = "test" THEN MaxTestLen + 1 ELSE MaxFanOut)
    /\ pc = IF entry = "main" THEN "parseURL" ELSE entry
    /\ acceptRanges = "?"
    /\ headLength = "?"
    /\ contentLength = IF entry = "main" THEN 0 ELSE resLen
    /\ perr = "none"
    /\ serr = "none"
    /\ fallbackRuns = 0
    /\ exitCode = 0
    /\ gen = IF entry = "main" THEN NoGenerator
                               ELSE batchGenerator(resLen, parallelRequests)
    /\ emitted = <<>>
    /\ exhausted = FALSE
    /\ returns = <<>>
    /\ maxFiles = 0
    /\ tasks = <<>>
    /\ wg = 0
    /\ finished = <<>>
    /\ readBytes = 0
    /\ chunks = <<>>
    /\ final = NoFile
    /\ mi = 0
    /\ faults = {}
    /\ mutex = 0
    /\ callers = [c \in CallerIds |-> NoCall]

\* ------------------------------------------------------------- the test loop
\* for _, b := range testCase.batches { start, stop := testCase.generator() ... }
TestCall ==
    /\ entry = "test"
    /\ pc = "test"
    /\ Len(returns) < MaxCalls
    /\ Recorded(gen)
    /\ UNCHANGED <<entry, resLen, parallelRequests, pc, acceptRanges, headLength, contentLength,
                   perr, serr, fallbackRuns, exitCode, maxFiles, tasks, wg,
                   finished, readBytes, chunks, final, mi, faults, mutex, callers>>

\* ------------------------------------------------------------- the probe
genVars == <<gen, emitted, exhausted, returns>>
taskVars == <<maxFiles, tasks, wg, finished, readBytes>>
fileVars == <<chunks, final, mi>>
mainVars == <<serr, fallbackRuns, exitCode>>
inputVars == <<entry, resLen, parallelRequests>>
callerVars == <<mutex, callers>>

\* parallelDownload returns ("", err)
ReturnErr(e) ==
    /\ perr' = e
    /\ pc' = "returned"

\* fallbackFileName, err := parseURLAndCaptureFilename(downloadURL)
ParseURL ==
    /\ pc = "parseURL"
    /\ \/ /\ pc' = "getHeaders"
          /\ UNCHANGED <<perr, faults>>
       \/ /\ CanFail
          /\ faults' = faults \cup {"url"}
          /\ ReturnErr("urlError")
    /\ UNCHANGED <<inputVars, callerVars, acceptRanges, headLength, contentLength, mainVars, genVars,
                   taskVars, fileVars>>

\* what the server may send as Accept-Ranges ("" stands for an absent header)
AcceptRangesValues == {"bytes", "none", ""}

\* headers, err := getHeaders(ctx, downloadURL): the response's headers are whatever
\* the server sends
GetHeaders ==
    /\ pc = "getHeaders"
    /\ \/ /\ \E ar \in AcceptRangesValues : acceptRanges' = ar
          /\ headLength' = "valid"
          /\ pc' = "checkRanges"
          /\ UNCHANGED <<perr, faults>>
       \/ /\ CanFail
          /\ faults' = faults \cup {"length"}
          /\ \E ar \in AcceptRangesValues : acceptRanges' = ar
          /\ headLength' = "invalid"
          /\ pc' = "checkRanges"
          /\ UNCHANGED perr
       \/ /\ CanFail
          /\ faults' = faults \cup {"head"}
          /\ ReturnErr("headError")
          /\ UNCHANGED <<acceptRanges, headLength>>
    /\ UNCHANGED <<inputVars, callerVars, contentLength, mainVars, genVars, taskVars, fileVars>>

\* any Accept-Ranges header taken for range support
RangesSupportedAny(ar) == ar # ""

\* "bytes" != headers.Get("Accept-Ranges")  is false
RangesSupported(ar) == ar = "bytes"

\* if "bytes" != headers.Get("Accept-Ranges") { return "", ErrNoParallelDownload }
CheckRanges ==
    /\ pc = "checkRanges"
    /\ IF RangesSupported(acceptRanges)
       THEN pc' = "extract" /\ UNCHANGED perr
       ELSE ReturnErr("ErrNoParallelDownload")
    /\ UNCHANGED <<inputVars, callerVars, acceptRanges, headLength, contentLength, mainVars, genVars,
                   taskVars, fileVars, faults>>

\* strconv.ParseUint(header.Get("Content-Length"), 10, 64) succeeds
LengthParses(h) == h = "valid"

\* fileName, contentLength, err := extractDownloadDetailsFromHeaders(headers);
\* progress := &progressWriter{...}; generator := batchGenerator(...)
Extract ==
    /\ pc = "extract"
    /\ IF LengthParses(headLength)
       THEN /\ contentLength' = resLen
            /\ gen' = batchGenerator(resLen, parallelRequests)
            /\ pc' = "dispatch"
            /\ UNCHANGED perr
       ELSE /\ ReturnErr("lengthError")
            /\ UNCHANGED <<contentLength, gen>>
    /\ UNCHANGED <<inputVars, callerVars, acceptRanges, headLength, mainVars, emitted, exhausted,
                   returns, taskVars, fileVars, faults>>

\* ------------------------------------------------------------- dispatch
\* the process dies: a panic in any goroutine
Panic == pc' = "panic"

\* the process is running (no panic, no os.Exit yet)
Alive == pc \notin {"panic", "exit"}

\* the sentinel test of the dispatch loop: startRange == 0 && stopRange == 0
IsSentinel(r) == r[1] = 0 /\ r[2] = 0

\* every goroutine handed index 0
TaskIndexZero(n) == 0

\* the index argument of the go statement: maxFiles
TaskIndex(n) == n

\* go func(index int, start, stop uint64) {...}(maxFiles, startRange, stopRange)
NewTask(n, r) ==
    [index |-> TaskIndex(n), start |-> r[1], stop |-> r[2], pc |-> "roundTrip",
     body |-> <<>>, reads |-> 0, reg |-> 0, pend |-> 0]

\* one iteration of the loop: generator(), the sentinel test, downloaderWg.Add(1),
\* the go statement, maxFiles++
Dispatch ==
    /\ pc = "dispatch"
    /\ IsSentinel(GenCall(gen).ret) \/ maxFiles < MaxTasks
    /\ Recorded(gen)
    /\ IF IsSentinel(GenCall(gen).ret)
       THEN /\ pc' = "wait"
            /\ UNCHANGED <<maxFiles, tasks, wg>>
       ELSE /\ wg' = wg + 1
            /\ tasks' = Append(tasks, NewTask(maxFiles, GenCall(gen).ret))
            /\ maxFiles' = maxFiles + 1
            /\ UNCHANGED pc
    /\ UNCHANGED <<inputVars, callerVars, acceptRanges, headLength, contentLength, perr, mainVars,
                   finished, readBytes, fileVars, faults>>

\* ------------------------------------------------------------- fetch tasks
\* task k (0-based index) is tasks[k + 1]
TaskIds == 0..(Len(tasks) - 1)

SetTask(k, t) == tasks' = [tasks EXCEPT ![k + 1] = t]

\* the body a server sends for Range: bytes=start-stop, cut at the resource's end
RangeBody(start, stop) == Bytes(start, Min(stop, resLen - 1))

\* the sizes the next Read of task t's response body may return: a short read of one
\* byte or all that is left, the body arriving in MaxReads reads at most
ReadSizes(t) ==
    IF t.reads + 1 >= MaxReads THEN {Len(t.body)} ELSE {1, Len(t.body)}

\* the chunk file of task k: fmt.Sprintf("%s.%d", fileName, index)
ChunkOf(k) == tasks[k + 1].index

\* os.Create(fileName.i): the file is created, or truncated when it exists
Created(f, i) == (i :> <<>>) @@ f

\* panic(err) in the goroutine of task k: its deferred calls run (file.Close(),
\* downloaderWg.Done()) and then the runtime ends the process (Crash); the other
\* goroutines run on until it has
TaskPanics(k) ==
    /\ SetTask(k, [tasks[k + 1] EXCEPT !.pc = "panicked"])
    /\ wg' = wg - 1

\* downloadRangeBytes: the RoundTrip (the response's status is not looked at), then
\* dataWriter's os.Create(fileName.k); an error of either ends in panic(err)
TaskFetch(k) ==
    /\ Alive
    /\ tasks[k + 1].pc = "roundTrip"
    /\ \/ /\ SetTask(k, [tasks[k + 1] EXCEPT
                            !.pc = "copy",
                            !.body = RangeBody(tasks[k + 1].start, tasks[k + 1].stop)])
          /\ chunks' = Created(chunks, ChunkOf(k))
          /\ UNCHANGED <<wg, faults>>
       \/ /\ CanFail
          /\ faults' = faults \cup {"status"}
          /\ SetTask(k, [tasks[k + 1] EXCEPT !.pc = "copy", !.body = ErrorBody])
          /\ chunks' = Created(chunks, ChunkOf(k))
          /\ UNCHANGED wg
       \/ /\ CanFail
          /\ \E e \in {"transport", "create"} : faults' = faults \cup {e}
          /\ TaskPanics(k)
          /\ UNCHANGED chunks
    /\ UNCHANGED <<inputVars, callerVars, pc, acceptRanges, headLength, contentLength, perr,
                   mainVars, genVars, maxFiles, finished, readBytes, final, mi>>

\* io.Copy's loop body: Read n bytes of the body, MultiWriter writes them to the file
\* (panic on error), then progressWriter.Write begins: p.readBytes is loaded
TaskCopy(k) ==
    /\ Alive
    /\ tasks[k + 1].pc = "copy"
    /\ \/ /\ \E n \in ReadSizes(tasks[k + 1]) :
                /\ chunks' = [chunks EXCEPT
                                 ![ChunkOf(k)] = @ \o SubSeq(tasks[k + 1].body, 1, n)]
                /\ SetTask(k, [tasks[k + 1] EXCEPT
                                  !.pc = "store",
                                  !.body = SubSeq(@, n + 1, Len(@)),
                                  !.reads = @ + 1,
                                  !.reg = readBytes,
                                  !.pend = n])
          /\ UNCHANGED <<wg, faults>>
       \/ /\ CanFail
          /\ faults' = faults \cup {"write"}
          /\ TaskPanics(k)
          /\ UNCHANGED chunks
    /\ UNCHANGED <<inputVars, callerVars, pc, acceptRanges, headLength, contentLength, perr,
                   mainVars, genVars, maxFiles, finished, readBytes, final, mi>>

\* p.readBytes += uint64(len(data)): the value loaded plus len(data) is stored
StoreValue(t) == UAdd(t.reg, t.pend)

\* progressWriter.Write ends: the store of p.readBytes (no lock is held); when the
\* body is at EOF io.Copy, dataWriter and downloadRangeBytes return and the deferred
\* downloaderWg.Done() runs
TaskStore(k) ==
    /\ Alive
    /\ tasks[k + 1].pc = "store"
    /\ readBytes' = StoreValue(tasks[k + 1])
    /\ IF tasks[k + 1].body = <<>>
       THEN /\ SetTask(k, [tasks[k + 1] EXCEPT !.pc = "done"])
            /\ wg' = wg - 1
            /\ finished' = Append(finished, tasks[k + 1].index)
       ELSE /\ SetTask(k, [tasks[k + 1] EXCEPT !.pc = "copy"])
            /\ UNCHANGED <<wg, finished>>
    /\ UNCHANGED <<inputVars, callerVars, pc, acceptRanges, headLength, contentLength, perr,
                   mainVars, genVars, maxFiles, fileVars, faults>>

\* a goroutine has panicked and the runtime has not ended the process yet
Dying == \E k \in TaskIds : tasks[k + 1].pc = "panicked"

\* the runtime ends the process after the panic of a goroutine
Crash ==
    /\ Alive
    /\ Dying
    /\ Panic
    /\ UNCHANGED <<inputVars, callerVars, acceptRanges, headLength, contentLength, perr, mainVars,
                   genVars, taskVars, fileVars, faults>>

\* ------------------------------------------------------------- reassembly
\* a Wait that returns whatever the counter is
WgAny == TRUE

\* the condition downloaderWg.Wait() returns on
WgZero == wg = 0

\* downloaderWg.Wait()
Wait ==
    /\ pc = "wait"
    /\ WgZero
    /\ pc' = "openBase"
    /\ UNCHANGED <<inputVars, callerVars, acceptRanges, headLength, contentLength, perr, mainVars, genVars,
                   taskVars, fileVars, faults>>

\* targetFile, err := os.OpenFile(fileName.0, O_WRONLY|O_APPEND); panic on error
OpenBase ==
    /\ pc = "openBase"
    /\ \/ /\ 0 \in DOMAIN chunks
          /\ pc' = "loop"
          /\ mi' = 1
          /\ UNCHANGED faults
       \/ /\ 0 \notin DOMAIN chunks
          /\ Panic
          /\ UNCHANGED <<mi, faults>>
       \/ /\ CanFail
          /\ faults' = faults \cup {"openBase"}
          /\ Panic
          /\ UNCHANGED mi
    /\ UNCHANGED <<inputVars, callerVars, acceptRanges, headLength, contentLength, perr, mainVars, genVars,
                   taskVars, chunks, final>>

\* for i := 1; i < maxFiles; i++ { dataFile, err := os.Open(fileName.i); panic on error
OpenChunk ==
    /\ pc = "loop"
    /\ mi < maxFiles
    /\ \/ /\ mi \in DOMAIN chunks
          /\ pc' = "copyChunk"
          /\ UNCHANGED faults
       \/ /\ mi \notin DOMAIN chunks
          /\ Panic
          /\ UNCHANGED faults
       \/ /\ CanFail
          /\ faults' = faults \cup {"openChunk"}
          /\ Panic
    /\ UNCHANGED <<inputVars, callerVars, acceptRanges, headLength, contentLength, perr, mainVars, genVars,
                   taskVars, fileVars>>

\* _, _ = io.Copy(targetFile, dataFile): the error is dropped
CopyChunk ==
    /\ pc = "copyChunk"
    /\ \/ /\ chunks' = [chunks EXCEPT ![0] = @ \o chunks[mi]]
          /\ UNCHANGED faults
       \/ /\ CanFail
          /\ faults' = faults \cup {"copy"}
          /\ \E n \in 0..(Len(chunks[mi]) - 1) :
                chunks' = [chunks EXCEPT ![0] = @ \o SubSeq(chunks[mi], 1, n)]
    /\ pc' = "removeChunk"
    /\ UNCHANGED <<inputVars, callerVars, acceptRanges, headLength, contentLength, perr, mainVars, genVars,
                   taskVars, final, mi>>

\* a removal that leaves every file in place
WithoutNone(f, i) == f

\* the files left when file i is removed
Without(f, i) == [j \in DOMAIN f \ {i} |-> f[j]]

\* _ = dataFile.Close(); _ = os.Remove(fileName.i): the error is dropped; i++
RemoveChunk ==
    /\ pc = "removeChunk"
    /\ \/ /\ chunks' = Without(chunks, mi)
          /\ UNCHANGED faults
       \/ /\ CanFail
          /\ faults' = faults \cup {"remove"}
          /\ UNCHANGED chunks
    /\ mi' = mi + 1
    /\ pc' = "loop"
    /\ UNCHANGED <<inputVars, callerVars, acceptRanges, headLength, contentLength, perr, mainVars, genVars,
                   taskVars, final>>

\* _ = targetFile.Close(); _ = os.Rename(fileName.0, fileName): the error is dropped;
\* return fileName, nil
Rename ==
    /\ pc = "loop"
    /\ mi >= maxFiles
    /\ \/ /\ final' = [exists |-> TRUE, data |-> chunks[0]]
          /\ chunks' = Without(chunks, 0)
          /\ UNCHANGED faults
       \/ /\ CanFail
          /\ faults' = faults \cup {"rename"}
          /\ UNCHANGED <<chunks, final>>
    /\ perr' = "nil"
    /\ pc' = "returned"
    /\ UNCHANGED <<inputVars, callerVars, acceptRanges, headLength, contentLength, mainVars, genVars,
                   taskVars, mi>>

\* ------------------------------------------------------------- main, serialDownload
\* errors.Is(err, ErrNoParallelDownload)
IsNoParallel(e) == e = "ErrNoParallelDownload"

\* fileName, err := parallelDownload(...); if errors.Is(err, ErrNoParallelDownload) {
\*     fileName, err = serialDownload(ctx, downloadURL) }
MainReturned ==
    /\ pc = "returned"
    /\ IF IsNoParallel(perr)
       THEN /\ fallbackRuns' = fallbackRuns + 1
            /\ pc' = "serialGet"
       ELSE /\ pc' = "report"
            /\ UNCHANGED fallbackRuns
    /\ UNCHANGED <<inputVars, callerVars, acceptRanges, headLength, contentLength, perr, serr, exitCode,
                   genVars, taskVars, fileVars, faults>>

\* serialDownload up to extractDownloadDetailsFromHeaders(res.Header)
SerialGet ==
    /\ pc = "serialGet"
    /\ \/ /\ pc' = "serialWrite"
          /\ UNCHANGED <<serr, faults>>
       \/ /\ CanFail
          /\ \E e \in {"transport", "length"} :
                /\ faults' = faults \cup {e}
                /\ serr' = IF e = "transport" THEN "transportError" ELSE "lengthError"
          /\ pc' = "report"
    /\ UNCHANGED <<inputVars, callerVars, acceptRanges, headLength, contentLength, perr, fallbackRuns,
                   exitCode, genVars, taskVars, fileVars>>

\* dataWriter(fileName, res.Body, progress) with serialDownload's own progressWriter;
\* return fileName, nil
SerialWrite ==
    /\ pc = "serialWrite"
    /\ \/ /\ final' = [exists |-> TRUE, data |-> Bytes(0, resLen - 1)]
          /\ serr' = "nil"
          /\ pc' = "report"
          /\ UNCHANGED faults
       \/ /\ CanFail
          /\ faults' = faults \cup {"status"}
          /\ final' = [exists |-> TRUE, data |-> ErrorBody]
          /\ serr' = "nil"
          /\ pc' = "report"
       \/ /\ CanFail
          /\ \E e \in {"create", "write"} : faults' = faults \cup {e}
          /\ Panic
          /\ UNCHANGED <<final, serr>>
    /\ UNCHANGED <<inputVars, callerVars, acceptRanges, headLength, contentLength, perr, fallbackRuns,
                   exitCode, genVars, taskVars, chunks, mi>>

\* the err main holds after the calls
MainErr == IF fallbackRuns > 0 THEN serr ELSE perr

\* if err != nil { exitCode = -1; return }; the deferred os.Exit(exitCode)
Report ==
    /\ pc = "report"
    /\ exitCode' = IF MainErr # "nil" THEN -1 ELSE 0
    /\ pc' = "exit"
    /\ UNCHANGED <<inputVars, callerVars, acceptRanges, headLength, contentLength, perr, serr, fallbackRuns,
                   genVars, taskVars, fileVars, faults>>

\* ------------------------------------------------------------- concurrent callers
\* the variables a call of the closure leaves alone
notGenVars == <<inputVars, pc, acceptRanges, headLength, contentLength, perr, mainVars,
                taskVars, fileVars, faults>>

SetCaller(c, r) == callers' = [callers EXCEPT ![c] = r]

\* if stop > contentLength { stop = contentLength }
Clamped(stop, cl) == IF stop > cl THEN cl ELSE stop

\* m.Lock(): taken only when no goroutine holds the mutex
CallerLock(c) ==
    /\ entry = "callers"
    /\ callers[c].pc = "call"
    /\ Len(returns) < MaxCallerCalls
    /\ mutex = 0
    /\ mutex' = c
    /\ SetCaller(c, [callers[c] EXCEPT !.pc = "locked"])
    /\ UNCHANGED <<notGenVars, genVars>>

\* if start >= contentLength { return 0, 0 }; stop := start + batchSize;
\* start += batchSize
CallerAdvance(c) ==
    /\ entry = "callers"
    /\ callers[c].pc = "locked"
    /\ IF GenExhausted(gen)
       THEN /\ SetCaller(c, [callers[c] EXCEPT
                                !.pc = "unlock", !.ret = <<0, 0>>, !.last = TRUE])
            /\ returns' = Append(returns, <<0, 0>>)
            /\ exhausted' = TRUE
            /\ UNCHANGED <<gen, emitted>>
       ELSE /\ SetCaller(c, [callers[c] EXCEPT
                                !.pc = "advanced",
                                !.stop = UAdd(gen.start, gen.batchSize)])
            /\ gen' = GenAdvance(gen)
            /\ UNCHANGED <<emitted, exhausted, returns>>
    /\ UNCHANGED <<notGenVars, mutex>>

\* if stop > contentLength { stop = contentLength }; return start - batchSize, stop - 1
\* (start is read again here)
CallerReturn(c) ==
    /\ entry = "callers"
    /\ callers[c].pc = "advanced"
    /\ LET ret == <<USub(gen.start, gen.batchSize),
                    USub(Clamped(callers[c].stop, gen.contentLength), 1)>>
       IN  /\ SetCaller(c, [callers[c] EXCEPT
                               !.pc = "unlock", !.ret = ret, !.last = FALSE])
           /\ returns' = Append(returns, ret)
           /\ emitted' = Append(emitted, ret)
    /\ UNCHANGED <<notGenVars, mutex, gen, exhausted>>

\* the deferred m.Unlock(); the caller receives the pair
CallerUnlock(c) ==
    /\ entry = "callers"
    /\ callers[c].pc = "unlock"
    /\ mutex' = 0
    /\ SetCaller(c, [callers[c] EXCEPT
                        !.pc = "call",
                        !.got = IF callers[c].last THEN @ ELSE Append(@, callers[c].ret)])
    /\ UNCHANGED <<notGenVars, genVars>>

\* ------------------------------------------------------------- specification
Next ==
    \/ TestCall
    \/ \E c \in CallerIds : CallerLock(c)
    \/ \E c \in CallerIds : CallerAdvance(c)
    \/ \E c \in CallerIds : CallerReturn(c)
    \/ \E c \in CallerIds : CallerUnlock(c)
    \/ ParseURL
    \/ GetHeaders
    \/ CheckRanges
    \/ Extract
    \/ Dispatch
    \/ \E k \in TaskIds : TaskFetch(k)
    \/ \E k \in TaskIds : TaskCopy(k)
    \/ \E k \in TaskIds : TaskStore(k)
    \/ Crash
    \/ Wait
    \/ OpenBase
    \/ OpenChunk
    \/ CopyChunk
    \/ RemoveChunk
    \/ Rename
    \/ MainReturned
    \/ SerialGet
    \/ SerialWrite
    \/ Report

Spec == Init /\ [][Next]_vars

\* ------------------------------------------------------------- properties
\* size in bytes of an inclusive range
RangeSize(r) == r[2] - r[1] + 1

\* parallelDownload is past its dispatch loop
PastDispatch ==
    entry = "main" /\ pc \in {"wait", "openBase", "loop", "copyChunk", "removeChunk"}

\* C1: for every contentLength >= 1 and fanOut >= 1 (fanOut > contentLength too) the
\* ranges the generator emits partition [0, contentLength) exactly: the first starts
\* at 0, each next one starts at the previous stop + 1, none is empty or reaches past
\* the end, and at exhaustion the last stop is contentLength - 1.
C1_ExactPartition ==
    /\ \A i \in 1..Len(emitted) :
          /\ emitted[i][1] = (IF i = 1 THEN 0 ELSE emitted[i - 1][2] + 1)
          /\ emitted[i][1] <= emitted[i][2]
          /\ emitted[i][2] <= contentLength - 1
    /\ exhausted => /\ Len(emitted) > 0
                    /\ emitted[Len(emitted)][2] = contentLength - 1

\* C2: when the probe reports range support and no transport or I/O failure occurs
\* and every range GET is answered with the requested bytes, parallelDownload does
\* not crash and, once it has returned, the final file holds bytes
\* 0..contentLength-1 of the resource in order.
C2_WholeFile ==
    (entry = "main" /\ acceptRanges = "bytes" /\ faults = {}) =>
        /\ pc # "panic"
        /\ (perr = "nil") => final = [exists |-> TRUE, data |-> Bytes(0, resLen - 1)]

\* C3: with fanOut > contentLength >= 1 the dispatch loop terminates: every range it
\* is handed moves the generator's cursor forward, so no more goroutines are started
\* than the resource has bytes.
C3_DispatchTerminates ==
    (entry = "main" /\ contentLength >= 1 /\ parallelRequests > contentLength) =>
        /\ maxFiles <= contentLength
        /\ (maxFiles > 0) => gen.start > 0

\* C4: every range the generator emits has start <= stop < contentLength in unsigned
\* arithmetic; stop - 1 never wraps around below zero.
C4_NoUnderflow ==
    \A i \in 1..Len(emitted) :
        emitted[i][1] <= emitted[i][2] /\ emitted[i][2] < contentLength

\* sum of the sizes of the chunk files 0..n-1
RECURSIVE ChunkBytes(_)
ChunkBytes(n) ==
    IF n = 0 THEN 0
    ELSE ChunkBytes(n - 1) + (IF (n - 1) \in DOMAIN chunks THEN Len(chunks[n - 1]) ELSE 0)

\* C5: under every interleaving of the fetch tasks' Write calls, when all fetches have
\* completed without failure (the barrier is passed, reassembly has not begun)
\* readBytes equals the sum of the bytes written to the chunk files, and that sum
\* equals maxBytes, the content length.
C5_NoLostIncrement ==
    (entry = "main" /\ pc = "openBase" /\ faults = {} /\ maxFiles >= 1) =>
        /\ readBytes = ChunkBytes(maxFiles)
        /\ ChunkBytes(maxFiles) = contentLength

\* C6: readBytes never decreases, whatever the interleaving of the tasks' Write calls
\* (stated for the downloads whose fan-out does not exceed the content length, where
\* the partition itself is sound).
C6_Monotonic == [][(parallelRequests <= contentLength) => readBytes' >= readBytes]_vars

\* C7: for 1 <= fanOut <= contentLength the dispatch loop starts exactly one task per
\* range of the partition: it ends only when the generator is exhausted, the k-th
\* emitted range is fetched by the task with index k, and no valid range is taken
\* for the exhausted signal.
C7_OneTaskPerRange ==
    (PastDispatch /\ parallelRequests <= contentLength) =>
        /\ exhausted
        /\ maxFiles = Len(emitted)
        /\ \A k \in 1..Len(tasks) :
              k <= Len(emitted) /\ <<tasks[k].start, tasks[k].stop>> = emitted[k]

\* C8 as claimed: for 1 <= fanOut <= contentLength the generator emits exactly fanOut
\* ranges, each of size floor(contentLength / fanOut) but the last, which takes the
\* remainder too; the number of tasks started equals the fan-out.
C8_FanOutRanges ==
    /\ (exhausted /\ parallelRequests <= contentLength) =>
          /\ Len(emitted) = parallelRequests
          /\ \A i \in 1..Len(emitted) :
                RangeSize(emitted[i]) =
                    IF i < Len(emitted)
                    THEN contentLength \div parallelRequests
                    ELSE contentLength
                           - (parallelRequests - 1) * (contentLength \div parallelRequests)
    /\ (PastDispatch /\ parallelRequests <= contentLength) =>
          maxFiles = parallelRequests

\* C8 amended: for 1 <= fanOut <= contentLength, with b = floor(contentLength / fanOut)
\* and contentLength + b within the unsigned range (start + batchSize does not wrap),
\* the generator emits exactly ceil(contentLength / b) ranges, each of size b but the
\* last, which holds the 1..b bytes that are left; the dispatch loop starts that
\* many tasks when b >= 2 and none when b = 1.
C8_RangeCount ==
    LET b == contentLength \div parallelRequests
        n == (contentLength + b - 1) \div b
    IN  (parallelRequests <= contentLength /\ contentLength + b <= UintMod) =>
            /\ exhausted =>
                  /\ Len(emitted) = n
                  /\ \A i \in 1..Len(emitted) :
                        RangeSize(emitted[i]) =
                            IF i < n THEN b ELSE contentLength - (n - 1) * b
                  /\ contentLength - (n - 1) * b \in 1..b
            /\ PastDispatch => maxFiles = IF b = 1 THEN 0 ELSE n

\* C8's case: a download whose dispatch loop has ended with more tasks than the
\* requested fan-out
C8_Witness ==
    /\ PastDispatch
    /\ exhausted
    /\ parallelRequests <= contentLength
    /\ maxFiles > parallelRequests

\* C9: with batchSize = floor(contentLength / totalBatches) the k-th call (k = 0, 1, ...)
\* returns the half-open pair (k * batchSize, min((k + 1) * batchSize, contentLength))
\* while k * batchSize < contentLength, and (0, 0) after that.
C9_HalfOpenPairs ==
    entry = "test" =>
        \A k \in 1..Len(returns) :
            LET b == contentLength \div parallelRequests
            IN  returns[k] = IF (k - 1) * b < contentLength
                             THEN <<(k - 1) * b, Min(k * b, contentLength)>>
                             ELSE <<0, 0>>

\* C10: given that the HEAD request succeeded, parallelDownload returns
\* ErrNoParallelDownload if and only if Accept-Ranges is absent or not "bytes"; main
\* runs serialDownload exactly when that error was returned, and at most once.
C10_FallbackIff ==
    /\ (acceptRanges # "?" /\ perr # "none") =>
          (perr = "ErrNoParallelDownload" <=> acceptRanges # "bytes")
    /\ fallbackRuns <= 1
    /\ (fallbackRuns = 1 \/ pc \in {"serialGet", "serialWrite"} \/ serr # "none") =>
          perr = "ErrNoParallelDownload"
    /\ (perr = "ErrNoParallelDownload" /\ pc \in {"report", "exit"}) =>
          fallbackRuns = 1

\* C10's case: the server sent no Accept-Ranges and main has run the fallback
C10_Witness ==
    /\ acceptRanges = ""
    /\ perr = "ErrNoParallelDownload"
    /\ fallbackRuns = 1
    /\ serr = "nil"
    /\ pc = "exit"

\* the probe failed: the HEAD request failed, or its Content-Length does not parse
ProbeFailed == "head" \in faults \/ headLength = "invalid"

\* C11: whenever the probe fails (HEAD fails, or its Content-Length is absent or not a
\* number, whatever Accept-Ranges is) the download ends in a terminal error with no
\* further state visited: no fetch task, no fallback GET, no file, and a non-zero
\* exit status.
C11_ProbeFailureTerminal ==
    (entry = "main" /\ ProbeFailed) =>
        /\ tasks = <<>>
        /\ fallbackRuns = 0
        /\ DOMAIN chunks = {}
        /\ ~final.exists
        /\ (pc = "exit") => exitCode # 0

\* a fetch task has failed: its range request returned an error, or its chunk file
\* could not be created or written
FetchFailed == \E k \in 1..Len(tasks) : tasks[k].pc = "panicked"

\* C12: once a fetch task has failed the download never enters reassembly and never
\* reaches Done: the base chunk is not opened for appending, no chunk is appended, no
\* rename produces the final file, and success is never reported.
C12_NoReassemblyAfterFailure ==
    FetchFailed =>
        /\ pc \notin {"loop", "copyChunk", "removeChunk"}
        /\ perr # "nil"
        /\ ~final.exists
        /\ (pc = "exit") => exitCode # 0

\* C13: a failure inside a fetch task reaches the orchestrator as an error value that
\* parallelDownload returns; it never ends the process by a panic raised in the
\* task's goroutine.
C13_ErrorValueNotPanic ==
    /\ (parallelRequests <= contentLength) => ~FetchFailed
    /\ (faults \cap {"transport", "create", "write"} # {} /\ tasks # <<>>
            /\ pc \in {"returned", "report", "exit"})
          => perr \notin {"nil", "none"}

\* C14: after all fetches succeed parallelDownload returns a nil error only if every
\* reassembly step succeeded: a failed append of a chunk to the base file, or a failed
\* rename of the base file to the final name, ends the download in an error.
C14_ReassemblyErrorsTerminal ==
    (entry = "main" /\ parallelRequests <= contentLength /\ ~FetchFailed /\ perr = "nil") =>
        faults \cap {"copy", "rename"} = {}

\* the I/O failures that can occur during reassembly
ReassemblyFaults == {"openBase", "openChunk", "copy", "remove", "rename"}

\* C15: when parallelDownload returns success after a reassembly with no I/O error, no
\* chunk file is left and the final file exists; during reassembly the base chunk is
\* in place, every chunk before the current one has already been deleted, and the
\* current one is deleted right after it is appended, before the next is opened.
C15_ChunksRemoved ==
    (entry = "main" /\ faults \cap ReassemblyFaults = {}) =>
        /\ (perr = "nil") => (DOMAIN chunks = {} /\ final.exists)
        /\ (pc \in {"loop", "copyChunk", "removeChunk"}) =>
              /\ 0 \in DOMAIN chunks
              /\ \A i \in 1..(mi - 1) : i \notin DOMAIN chunks
              /\ (pc \in {"copyChunk", "removeChunk"}) =>
                    (mi < maxFiles /\ mi \in DOMAIN chunks)

\* a download of two or more chunks has returned success with no failure at all
C15_Witness ==
    /\ entry = "main" /\ maxFiles >= 2 /\ faults = {}
    /\ perr = "nil" /\ DOMAIN chunks = {} /\ final.exists

\* the goroutine of tasks[k] has ended (it returned, or it unwound in a panic)
TaskEnded(k) == tasks[k].pc \in {"done", "panicked"}

\* the orchestrator has opened the base chunk, or is appending or deleting a chunk
Reassembling == entry = "main" /\ pc \in {"loop", "copyChunk", "removeChunk"}

\* C16: reassembly never starts while a fetch task is still running: the WaitGroup
\* counter is the number of started tasks that have not ended, and whenever the
\* orchestrator is past Wait (about to open the base chunk, appending or deleting)
\* every started task has ended.
C16_BarrierBeforeReassembly ==
    /\ wg = Cardinality({k \in 1..Len(tasks) : ~TaskEnded(k)})
    /\ (Reassembling \/ pc = "openBase") =>
          (Len(tasks) = maxFiles /\ \A k \in 1..Len(tasks) : TaskEnded(k))

\* the orchestrator is appending a chunk of a download that started three tasks
C16_Witness ==
    Reassembling /\ pc = "copyChunk" /\ Len(tasks) >= 3 /\ faults = {}

\* the first n ranges a single caller obtains by calling generator g in sequence
RECURSIVE SeqRanges(_, _)
SeqRanges(g, n) ==
    IF n = 0 \/ GenCall(g).done THEN <<>>
    ELSE <<GenCall(g).ret>> \o SeqRanges(GenCall(g).gen, n - 1)

\* every range received by a caller, as <<caller, position, range>>
Handed ==
    UNION {{<<c, i, callers[c].got[i]>> : i \in 1..Len(callers[c].got)} : c \in CallerIds}

\* the callers that hold a range they have not yet received
Returning == {c \in CallerIds : callers[c].pc = "unlock" /\ ~callers[c].last}

\* C17: when several goroutines call one generator concurrently, under every
\* interleaving the non-exhausted ranges handed out are pairwise distinct (none goes
\* to two callers, none twice to one) and together are exactly the ranges a single
\* sequential caller obtains, none skipped.
C17_DistinctRanges ==
    (entry = "callers") =>
        /\ \A h1, h2 \in Handed : (h1[3] = h2[3]) => (h1 = h2)
        /\ emitted = SeqRanges(batchGenerator(resLen, parallelRequests), Len(emitted))
        /\ {h[3] : h \in Handed} \subseteq {emitted[i] : i \in 1..Len(emitted)}
        /\ Cardinality(Handed) + Cardinality(Returning) = Len(emitted)

\* the same, for the generators whose batch size is not zero
C17_WithinFanOut == (parallelRequests <= resLen) => C17_DistinctRanges

\* the components that hold chunk file i open for writing: the tasks between
\* os.Create and the end of io.Copy, and the orchestrator on the base chunk from
\* os.OpenFile on
WritersOf(i) ==
    {k \in 1..Len(tasks) : tasks[k].index = i /\ tasks[k].pc \in {"copy", "store"}}
        \cup (IF i = 0 /\ Reassembling THEN {0} ELSE {})

\* C18: at most one component has write access to any chunk file: no two tasks are
\* given the same index, so no two tasks write the same file, and the orchestrator
\* writes to the base chunk only when the task that wrote it has ended.
C18_ExclusiveWriter ==
    /\ \A j, k \in 1..Len(tasks) : (tasks[j].index = tasks[k].index) => (j = k)
    /\ \A k \in 1..Len(tasks) : Cardinality(WritersOf(tasks[k].index)) <= 1
    /\ Reassembling => (WritersOf(0) = {0} /\ maxFiles >= 1 /\ TaskEnded(1))

\* two tasks are writing their chunk files at the same time
C18_Witness ==
    \E j, k \in 1..Len(tasks) :
        /\ j < k
        /\ tasks[j].pc \in {"copy", "store"} /\ tasks[k].pc \in {"copy", "store"}
        /\ tasks[j].index \in DOMAIN chunks /\ tasks[k].index \in DOMAIN chunks

\* file content f holds bytes of a non-success response's body
HoldsErrorBody(f) == \E i \in 1..Len(f) : f[i] = ErrorBody[1]

\* C19: a range GET answered with a non-success status is a fetch failure: its body
\* is not written into a chunk or into the final file, and the download ends in an
\* error, without reassembly and without a successful return.
C19_StatusIsFailure ==
    (entry = "main" /\ acceptRanges = "bytes" /\ parallelRequests <= contentLength
        /\ "status" \in faults) =>
        /\ \A i \in DOMAIN chunks : ~HoldsErrorBody(chunks[i])
        /\ ~HoldsErrorBody(final.data)
        /\ ~Reassembling
        /\ perr # "nil"

\* the bodies of the given ranges, one after the other
RECURSIVE Joined(_)
Joined(rs) ==
    IF rs = <<>> THEN <<>>
    ELSE RangeBody(rs[1][1], rs[1][2]) \o Joined(Tail(rs))

\* the final file of a download with n tasks: the ranges a sequential caller of
\* the generator obtains, in their order
ExpectedFile(n) ==
    [exists |-> TRUE,
     data   |-> Joined(SeqRanges(batchGenerator(contentLength, parallelRequests), n))]

\* C20: the outcome of a successful parallel download does not depend on the order
\* in which the fetch tasks complete: whatever the interleaving, the final file is
\* the one determined by the resource, contentLength and fanOut, and no other
\* file is left on disk.
C20_OrderIndependent ==
    (entry = "main" /\ faults = {} /\ perr = "nil") =>
        /\ final = ExpectedFile(maxFiles)
        /\ DOMAIN chunks = {}
        /\ Len(finished) = maxFiles

\* a download has succeeded in which a later-indexed task finished before an
\* earlier one
C20_Witness ==
    /\ entry = "main" /\ faults = {} /\ perr = "nil" /\ final.exists
    /\ \E i, j \in 1..Len(finished) : i < j /\ finished[i] > finished[j]

====
